---- MODULE Spec2Model ----
(***************************************************************************)
(* Airline reservation system (src/main.cpp): two SQLite tables, Flights   *)
(* and Users, and the eight console operations that mutate them.           *)
(*                                                                         *)
(* The database is a record db = [Flights, Users]; each table is a         *)
(* function from the primary keys present to the other columns of the row. *)
(* Every operation is a pure operator from (db, console input, outcomes of *)
(* its storage accesses) to the resulting db, the message it prints and    *)
(* the SQL statements it ran.  io[i] is the outcome of the i-th storage    *)
(* access of the operation (TRUE: the database opened and the statement    *)
(* ran; FALSE: sqlite3_open / prepare / exec reported an error).           *)
(*                                                                         *)
(* Text inputs are quote-free strings, so the concatenated SQL is the      *)
(* statement it is meant to be; the empty line is a possible input.        *)
(***************************************************************************)
EXTENDS Integers, Sequences, FiniteSets, TLC

VARIABLES Flights, Users, last

vars == <<Flights, Users, last>>

----------------------------------------------------------------------------
(* Bounds of the model *)

MaxTickets == 1
MaxDrift == 1
MaxFailures == 1

(* Console inputs.  name, airlineName, startingPoint and destination are  *)
(* columns no operation reads back: the tables are explored with one      *)
(* value of each, and the contracts of the operations are checked with    *)
(* the wider sets below as inputs.                                        *)

FlightNumbers == {"", "AA100"}
UserIDs == {"U1", "U2"}
Names == {"Ann"}
(* <<airlineName, startingPoint, destination>> *)
FlightDetails == {<<"Delta", "NYC", "LAX">>}
TicketInputs == 0..MaxTickets
(* seat numbers are not range-checked *)
Seats == {-1, 1}

AnyName == Names \cup {"Bob"}
AnyFlightDetails == FlightDetails \cup {<<"KLM", "AMS", "CDG">>}

(* availableTickets is an unbounded counter in the program; the model     *)
(* explores the states in which it stays within this range.               *)
AvailRange == (0 - MaxDrift)..MaxTickets

(* io[i] is the outcome of the i-th storage access of an operation that  *)
(* makes up to n of them: Ok(n) when all succeed, IO(n) when up to        *)
(* MaxFailures of them fail.                                              *)
Ok(n) == [i \in 1..n |-> TRUE]
IO(n) ==
    {io \in [1..n -> BOOLEAN] : Cardinality({i \in 1..n : ~io[i]}) <= MaxFailures}
(* of n accesses exactly the k-th fails *)
FailAt(n, k) == [i \in 1..n |-> i # k]

----------------------------------------------------------------------------
(* Rows *)

Flight(airlineName, startingPoint, destination, totalTickets, availableTickets) ==
    [airlineName |-> airlineName, startingPoint |-> startingPoint,
     destination |-> destination, totalTickets |-> totalTickets,
     availableTickets |-> availableTickets]

User(name, flightNumber, seatNumber) ==
    [name |-> name, flightNumber |-> flightNumber, seatNumber |-> seatNumber]

(* f with the row of key k removed / set *)
Without(f, k) == [x \in DOMAIN f \ {k} |-> f[x]]
With(f, k, v) == [x \in DOMAIN f \cup {k} |-> IF x = k THEN v ELSE f[x]]

----------------------------------------------------------------------------
(* Schema constraints enforced by the engine (initializeDatabase).        *)
(* FOREIGN KEY is declared but the program never turns foreign_keys on,    *)
(* so the engine does not enforce it.                                      *)

(* mutant: the schema without its UNIQUE(flightNumber, seatNumber) *)
UniqueSeatViolated_Off(users, userID, flightNumber, seatNumber) == FALSE

(* UNIQUE(flightNumber, seatNumber): a row other than userID holds it *)
UniqueSeatViolated(users, userID, flightNumber, seatNumber) ==
    \E u \in DOMAIN users :
        /\ u # userID
        /\ users[u].flightNumber = flightNumber
        /\ users[u].seatNumber = seatNumber

----------------------------------------------------------------------------
(* Statements run through executeSQL: each returns [db, success] *)

Stmt(kind, success) == [kind |-> kind, success |-> success]

(* INSERT INTO Flights VALUES (...) *)
InsertFlight(db, flightNumber, row, ok) ==
    LET success == ok /\ flightNumber \notin DOMAIN db.Flights
    IN [db |-> IF success
               THEN [db EXCEPT !.Flights = With(db.Flights, flightNumber, row)]
               ELSE db,
        success |-> success]

(* mutant: availableTickets is validated against totalTickets *)
UpdateFlight_Clamped(db, flightNumber, row, ok) ==
    [db |-> IF ok /\ flightNumber \in DOMAIN db.Flights
            THEN [db EXCEPT !.Flights[flightNumber] =
                     [row EXCEPT !.availableTickets =
                         IF @ > row.totalTickets THEN row.totalTickets ELSE @]]
            ELSE db,
     success |-> ok]

(* UPDATE Flights SET airlineName.., availableTickets = .. WHERE flightNumber = .. *)
UpdateFlight(db, flightNumber, row, ok) ==
    [db |-> IF ok /\ flightNumber \in DOMAIN db.Flights
            THEN [db EXCEPT !.Flights[flightNumber] = row]
            ELSE db,
     success |-> ok]

(* mutant: the UPDATE without its WHERE clause *)
UpdateAvailableTickets_NoWhere(db, flightNumber, delta, ok) ==
    [db |-> IF ok
            THEN [db EXCEPT !.Flights =
                     [f \in DOMAIN db.Flights |->
                        [db.Flights[f] EXCEPT !.availableTickets = @ + delta]]]
            ELSE db,
     success |-> ok]

(* UPDATE Flights SET availableTickets = availableTickets + delta WHERE flightNumber = .. *)
UpdateAvailableTickets(db, flightNumber, delta, ok) ==
    [db |-> IF ok /\ flightNumber \in DOMAIN db.Flights
            THEN [db EXCEPT !.Flights[flightNumber].availableTickets = @ + delta]
            ELSE db,
     success |-> ok]

(* DELETE FROM Flights WHERE flightNumber = .. *)
DeleteFlightRow(db, flightNumber, ok) ==
    [db |-> IF ok THEN [db EXCEPT !.Flights = Without(db.Flights, flightNumber)]
            ELSE db,
     success |-> ok]

(* mutant: the users of the flight are not deleted *)
DeleteUsersOfFlight_None(db, flightNumber, ok) == [db |-> db, success |-> ok]

(* mutant: the DELETE without its WHERE clause *)
DeleteUsersOfFlight_All(db, flightNumber, ok) ==
    [db |-> IF ok THEN [db EXCEPT !.Users = [x \in {} |-> 0]] ELSE db,
     success |-> ok]

(* DELETE FROM Users WHERE flightNumber = .. *)
DeleteUsersOfFlight(db, flightNumber, ok) ==
    [db |-> IF ok
            THEN [db EXCEPT !.Users =
                     [u \in {x \in DOMAIN db.Users :
                                db.Users[x].flightNumber # flightNumber}
                        |-> db.Users[u]]]
            ELSE db,
     success |-> ok]

(* INSERT INTO Users VALUES (userID, name, flightNumber, seatNumber) *)
InsertUser(db, userID, row, ok) ==
    LET success == /\ ok
                   /\ userID \notin DOMAIN db.Users
                   /\ ~UniqueSeatViolated(db.Users, userID,
                                          row.flightNumber, row.seatNumber)
    IN [db |-> IF success
               THEN [db EXCEPT !.Users = With(db.Users, userID, row)]
               ELSE db,
        success |-> success]

(* UPDATE Users SET name.., flightNumber.., seatNumber.. WHERE userID = .. *)
UpdateUser(db, userID, row, ok) ==
    LET present == userID \in DOMAIN db.Users
        success == ok /\ (present =>
                            ~UniqueSeatViolated(db.Users, userID,
                                                row.flightNumber, row.seatNumber))
    IN [db |-> IF success /\ present
               THEN [db EXCEPT !.Users[userID] = row]
               ELSE db,
        success |-> success]

(* DELETE FROM Users WHERE userID = .. *)
DeleteUserRow(db, userID, ok) ==
    [db |-> IF ok THEN [db EXCEPT !.Users = Without(db.Users, userID)] ELSE db,
     success |-> ok]

----------------------------------------------------------------------------
(* Entity validators: on a storage error each returns its initial value *)

flightExists(db, flightNumber, ok) ==
    ok /\ flightNumber \in DOMAIN db.Flights

userExists(db, userID, ok) ==
    ok /\ userID \in DOMAIN db.Users

(* mutant: the seat query never finds a row *)
isSeatAvailable_Always(db, flightNumber, seatNumber, ok) == TRUE

isSeatAvailable(db, flightNumber, seatNumber, ok) ==
    ~(ok /\ \E u \in DOMAIN db.Users :
                /\ db.Users[u].flightNumber = flightNumber
                /\ db.Users[u].seatNumber = seatNumber)

(* the seat numbers booked on a flight (the program lists them in storage order) *)
getTakenSeats(db, flightNumber) ==
    {db.Users[u].seatNumber :
        u \in {x \in DOMAIN db.Users : db.Users[x].flightNumber = flightNumber}}

----------------------------------------------------------------------------
(* Inline look-ups of deleteUser, cancelReservation and makeReservation *)

(* SELECT flightNumber FROM Users WHERE userID = ..: the local string     *)
(* flightNumber, left empty when no row was read                          *)
LookupFlightNumber(db, userID, ok) ==
    IF ok /\ userID \in DOMAIN db.Users THEN db.Users[userID].flightNumber ELSE ""

(* mutant: the query reads the totalTickets column *)
LookupAvailableTickets_Total(db, flightNumber, ok) ==
    IF ok /\ flightNumber \in DOMAIN db.Flights
    THEN db.Flights[flightNumber].totalTickets
    ELSE -1

(* SELECT availableTickets FROM Flights WHERE flightNumber = ..: the      *)
(* local int availableTickets, left at -1 when no row was read            *)
LookupAvailableTickets(db, flightNumber, ok) ==
    IF ok /\ flightNumber \in DOMAIN db.Flights
    THEN db.Flights[flightNumber].availableTickets
    ELSE -1

(* mutant: the query without its "AND userID != ?" *)
SeatAvailableExcluding_Nobody(db, flightNumber, seatNumber, userID, ok) ==
    ~(ok /\ \E u \in DOMAIN db.Users :
                /\ db.Users[u].flightNumber = flightNumber
                /\ db.Users[u].seatNumber = seatNumber)

(* SELECT 1 FROM Users WHERE flightNumber = ? AND seatNumber = ? AND userID != ? *)
SeatAvailableExcluding(db, flightNumber, seatNumber, userID, ok) ==
    ~(ok /\ \E u \in DOMAIN db.Users :
                /\ db.Users[u].flightNumber = flightNumber
                /\ db.Users[u].seatNumber = seatNumber
                /\ u # userID)

----------------------------------------------------------------------------
(* The operations.  Each returns [db, msg, stmts]: the database after it, *)
(* the message it prints on stdout ("" when it prints none) and the       *)
(* statements it passed to executeSQL with their results.                 *)
(* The seat-taken message is printed with the seat number in it.          *)

Result(db, msg, stmts) == [db |-> db, msg |-> msg, stmts |-> stmts]

(* mutant: availableTickets is not set from totalTickets *)
addFlight_NoTickets(db, flightNumber, airlineName, startingPoint, destination, totalTickets, io) ==
    IF flightExists(db, flightNumber, io[1])
    THEN Result(db, "Flight with this number already exists!", <<>>)
    ELSE LET ins == InsertFlight(db, flightNumber,
                                 Flight(airlineName, startingPoint, destination,
                                        totalTickets, 0), io[2])
         IN Result(ins.db,
                   IF ins.success THEN "Flight added successfully." ELSE "",
                   <<Stmt("INSERT Flights", ins.success)>>)

addFlight(db, flightNumber, airlineName, startingPoint, destination, totalTickets, io) ==
    IF flightExists(db, flightNumber, io[1])
    THEN Result(db, "Flight with this number already exists!", <<>>)
    ELSE LET availableTickets == totalTickets
             ins == InsertFlight(db, flightNumber,
                                 Flight(airlineName, startingPoint, destination,
                                        totalTickets, availableTickets), io[2])
         IN Result(ins.db,
                   IF ins.success THEN "Flight added successfully." ELSE "",
                   <<Stmt("INSERT Flights", ins.success)>>)

modifyFlight(db, flightNumber, airlineName, startingPoint, destination, totalTickets, availableTickets, io) ==
    IF ~flightExists(db, flightNumber, io[1])
    THEN Result(db, "Flight not found!", <<>>)
    ELSE LET upd == UpdateFlight(db, flightNumber,
                                 Flight(airlineName, startingPoint, destination,
                                        totalTickets, availableTickets), io[2])
         IN Result(upd.db,
                   IF upd.success THEN "Flight modified successfully." ELSE "",
                   <<Stmt("UPDATE Flights", upd.success)>>)

(* mutant: the two DELETEs run in one transaction *)
deleteFlight_Atomic(db, flightNumber, io) ==
    IF ~flightExists(db, flightNumber, io[1])
    THEN Result(db, "Flight not found!", <<>>)
    ELSE LET delUsers == DeleteUsersOfFlight(db, flightNumber, io[2])
             delFlight == DeleteFlightRow(delUsers.db, flightNumber, io[3])
         IN IF ~delUsers.success
            THEN Result(delUsers.db, "", <<Stmt("DELETE Users", FALSE)>>)
            ELSE Result(IF delFlight.success THEN delFlight.db ELSE db,
                        IF delFlight.success
                        THEN "Flight and associated users deleted successfully."
                        ELSE "",
                        <<Stmt("DELETE Users", TRUE),
                          Stmt("DELETE Flights", delFlight.success)>>)

deleteFlight(db, flightNumber, io) ==
    IF ~flightExists(db, flightNumber, io[1])
    THEN Result(db, "Flight not found!", <<>>)
    ELSE LET delUsers == DeleteUsersOfFlight(db, flightNumber, io[2])
             delFlight == DeleteFlightRow(delUsers.db, flightNumber, io[3])
         IN IF ~delUsers.success
            THEN Result(delUsers.db, "", <<Stmt("DELETE Users", FALSE)>>)
            ELSE Result(delFlight.db,
                        IF delFlight.success
                        THEN "Flight and associated users deleted successfully."
                        ELSE "",
                        <<Stmt("DELETE Users", TRUE),
                          Stmt("DELETE Flights", delFlight.success)>>)

(* mutant: the decrement runs whatever the INSERT returned *)
addUser_UpdateAlways(db, userID, name, flightNumber, seatNumber, io) ==
    IF userExists(db, userID, io[1])
    THEN Result(db, "User with this ID already exists!", <<>>)
    ELSE IF ~flightExists(db, flightNumber, io[2])
    THEN Result(db, "Flight doesn't exist!", <<>>)
    ELSE IF ~isSeatAvailable(db, flightNumber, seatNumber, io[3])
    THEN Result(db, "Seat is already taken on this flight!", <<>>)
    ELSE LET ins == InsertUser(db, userID, User(name, flightNumber, seatNumber), io[4])
             upd == UpdateAvailableTickets(ins.db, flightNumber, -1, io[5])
         IN Result(upd.db,
                   IF ins.success THEN "User added successfully." ELSE "",
                   <<Stmt("INSERT Users", ins.success),
                     Stmt("UPDATE availableTickets", upd.success)>>)

(* mutant: the capacity check of makeReservation, in addUser too *)
addUser_CapacityChecked(db, userID, name, flightNumber, seatNumber, io) ==
    IF userExists(db, userID, io[1])
    THEN Result(db, "User with this ID already exists!", <<>>)
    ELSE IF ~flightExists(db, flightNumber, io[2])
    THEN Result(db, "Flight doesn't exist!", <<>>)
    ELSE IF db.Flights[flightNumber].availableTickets <= 0
    THEN Result(db, "No available tickets for this flight.", <<>>)
    ELSE IF ~isSeatAvailable(db, flightNumber, seatNumber, io[3])
    THEN Result(db, "Seat is already taken on this flight!", <<>>)
    ELSE LET ins == InsertUser(db, userID, User(name, flightNumber, seatNumber), io[4])
             upd == UpdateAvailableTickets(ins.db, flightNumber, -1, io[5])
         IN IF ins.success
            THEN Result(upd.db, "User added successfully.",
                        <<Stmt("INSERT Users", TRUE),
                          Stmt("UPDATE availableTickets", upd.success)>>)
            ELSE Result(ins.db, "", <<Stmt("INSERT Users", FALSE)>>)

addUser(db, userID, name, flightNumber, seatNumber, io) ==
    IF userExists(db, userID, io[1])
    THEN Result(db, "User with this ID already exists!", <<>>)
    ELSE IF ~flightExists(db, flightNumber, io[2])
    THEN Result(db, "Flight doesn't exist!", <<>>)
    ELSE IF ~isSeatAvailable(db, flightNumber, seatNumber, io[3])
    THEN Result(db, "Seat is already taken on this flight!", <<>>)
    ELSE LET ins == InsertUser(db, userID, User(name, flightNumber, seatNumber), io[4])
             upd == UpdateAvailableTickets(ins.db, flightNumber, -1, io[5])
         IN IF ins.success
            THEN Result(upd.db, "User added successfully.",
                        <<Stmt("INSERT Users", TRUE),
                          Stmt("UPDATE availableTickets", upd.success)>>)
            ELSE Result(ins.db, "", <<Stmt("INSERT Users", FALSE)>>)

modifyUser(db, userID, name, flightNumber, seatNumber, io) ==
    IF ~userExists(db, userID, io[1])
    THEN Result(db, "User not found!", <<>>)
    ELSE IF ~flightExists(db, flightNumber, io[2])
    THEN Result(db, "Flight doesn't exist!", <<>>)
    ELSE IF ~SeatAvailableExcluding(db, flightNumber, seatNumber, userID, io[3])
    THEN Result(db, "Seat is already taken on this flight!", <<>>)
    ELSE LET upd == UpdateUser(db, userID, User(name, flightNumber, seatNumber), io[4])
         IN Result(upd.db,
                   IF upd.success THEN "User modified successfully." ELSE "",
                   <<Stmt("UPDATE Users", upd.success)>>)

deleteUser(db, userID, io) ==
    IF ~userExists(db, userID, io[1])
    THEN Result(db, "User not found!", <<>>)
    ELSE LET flightNumber == LookupFlightNumber(db, userID, io[2])
             del == DeleteUserRow(db, userID, io[3])
             upd == UpdateAvailableTickets(del.db, flightNumber, 1, io[4])
         IN IF ~del.success
            THEN Result(del.db, "", <<Stmt("DELETE Users", FALSE)>>)
            ELSE IF flightNumber # ""
            THEN Result(upd.db, "User deleted successfully.",
                        <<Stmt("DELETE Users", TRUE),
                          Stmt("UPDATE availableTickets", upd.success)>>)
            ELSE Result(del.db, "User deleted successfully.",
                        <<Stmt("DELETE Users", TRUE)>>)

makeReservation(db, userID, name, flightNumber, seatNumber, io) ==
    IF userExists(db, userID, io[1])
    THEN Result(db, "User with this ID already exists!", <<>>)
    ELSE LET availableTickets == LookupAvailableTickets(db, flightNumber, io[2])
         IN IF availableTickets = -1
            THEN Result(db, "Flight not found.", <<>>)
            ELSE IF availableTickets <= 0
            THEN Result(db, "No available tickets for this flight.", <<>>)
            ELSE IF ~isSeatAvailable(db, flightNumber, seatNumber, io[3])
            THEN Result(db, "Seat is already taken on this flight!", <<>>)
            ELSE LET ins == InsertUser(db, userID,
                                       User(name, flightNumber, seatNumber), io[4])
                     upd == UpdateAvailableTickets(ins.db, flightNumber, -1, io[5])
                 IN IF ins.success
                    THEN Result(upd.db, "Reservation successful! Seat booked.",
                                <<Stmt("INSERT Users", TRUE),
                                  Stmt("UPDATE availableTickets", upd.success)>>)
                    ELSE Result(ins.db, "", <<Stmt("INSERT Users", FALSE)>>)

(* mutant: the counter is left alone *)
cancelReservation_NoIncrement(db, userID, io) ==
    IF ~userExists(db, userID, io[1])
    THEN Result(db, "User not found!", <<>>)
    ELSE LET del == DeleteUserRow(db, userID, io[3])
         IN Result(del.db,
                   IF del.success THEN "Reservation canceled successfully." ELSE "",
                   <<Stmt("DELETE Users", del.success)>>)

cancelReservation(db, userID, io) ==
    IF ~userExists(db, userID, io[1])
    THEN Result(db, "User not found!", <<>>)
    ELSE LET flightNumber == LookupFlightNumber(db, userID, io[2])
             del == DeleteUserRow(db, userID, io[3])
             upd == UpdateAvailableTickets(del.db, flightNumber, 1, io[4])
         IN IF ~del.success
            THEN Result(del.db, "", <<Stmt("DELETE Users", FALSE)>>)
            ELSE IF flightNumber # ""
            THEN Result(upd.db, "Reservation canceled successfully.",
                        <<Stmt("DELETE Users", TRUE),
                          Stmt("UPDATE availableTickets", upd.success)>>)
            ELSE Result(del.db, "Reservation canceled successfully.",
                        <<Stmt("DELETE Users", TRUE)>>)

----------------------------------------------------------------------------
(* The console loop of main(): one operation per step.                    *)
(*   Flights, Users  the two tables of database.db                        *)
(*   last            the last operation that passed its validation and    *)
(*                   ran a statement, and the message it printed; an      *)
(*                   operation that aborts on validation changes nothing  *)

DB == [Flights |-> Flights, Users |-> Users]

Empty == [x \in {} |-> 0]

InRange(db) ==
    \A f \in DOMAIN db.Flights : db.Flights[f].availableTickets \in AvailRange

Run(op, r) ==
    /\ InRange(r.db)
    /\ Flights' = r.db.Flights
    /\ Users' = r.db.Users
    /\ last' = IF r.stmts = <<>> THEN last ELSE [op |-> op, msg |-> r.msg]

(* the first run: initializeDatabase creates the two tables, empty *)
Init ==
    /\ Flights = Empty
    /\ Users = Empty
    /\ last = [op |-> "initializeDatabase", msg |-> "Database initialized successfully"]

AddFlight(io) ==
    \E flightNumber \in FlightNumbers, d \in FlightDetails,
       totalTickets \in TicketInputs :
        Run("addFlight",
            addFlight(DB, flightNumber, d[1], d[2], d[3], totalTickets, io))

ModifyFlight(io) ==
    \E flightNumber \in FlightNumbers, d \in FlightDetails,
       totalTickets \in TicketInputs, availableTickets \in TicketInputs :
        Run("modifyFlight",
            modifyFlight(DB, flightNumber, d[1], d[2], d[3],
                         totalTickets, availableTickets, io))

DeleteFlight(io) ==
    \E flightNumber \in FlightNumbers :
        Run("deleteFlight", deleteFlight(DB, flightNumber, io))

AddUser(io) ==
    \E userID \in UserIDs, name \in Names, flightNumber \in FlightNumbers,
       seatNumber \in Seats :
        Run("addUser", addUser(DB, userID, name, flightNumber, seatNumber, io))

ModifyUser(io) ==
    \E userID \in UserIDs, name \in Names, flightNumber \in FlightNumbers,
       seatNumber \in Seats :
        Run("modifyUser", modifyUser(DB, userID, name, flightNumber, seatNumber, io))

DeleteUser(io) ==
    \E userID \in UserIDs :
        Run("deleteUser", deleteUser(DB, userID, io))

MakeReservation(io) ==
    \E userID \in UserIDs, name \in Names, flightNumber \in FlightNumbers,
       seatNumber \in Seats :
        Run("makeReservation",
            makeReservation(DB, userID, name, flightNumber, seatNumber, io))

CancelReservation(io) ==
    \E userID \in UserIDs :
        Run("cancelReservation", cancelReservation(DB, userID, io))

(* Every storage access succeeds *)
Next ==
    \/ AddFlight(Ok(2))
    \/ ModifyFlight(Ok(2))
    \/ DeleteFlight(Ok(3))
    \/ AddUser(Ok(5))
    \/ ModifyUser(Ok(4))
    \/ DeleteUser(Ok(4))
    \/ MakeReservation(Ok(5))
    \/ CancelReservation(Ok(4))

Spec == Init /\ [][Next]_vars

(* Every storage access succeeds and neither modifyFlight nor modifyUser *)
(* is chosen from the menu                                               *)
NextNoModify ==
    \/ AddFlight(Ok(2))
    \/ DeleteFlight(Ok(3))
    \/ AddUser(Ok(5))
    \/ DeleteUser(Ok(4))
    \/ MakeReservation(Ok(5))
    \/ CancelReservation(Ok(4))

SpecNoModify == Init /\ [][NextNoModify]_vars

(* Storage accesses may fail *)
NextFail ==
    \/ \E io \in IO(2) : AddFlight(io)
    \/ \E io \in IO(2) : ModifyFlight(io)
    \/ \E io \in IO(3) : DeleteFlight(io)
    \/ \E io \in IO(5) : AddUser(io)
    \/ \E io \in IO(4) : ModifyUser(io)
    \/ \E io \in IO(4) : DeleteUser(io)
    \/ \E io \in IO(5) : MakeReservation(io)
    \/ \E io \in IO(4) : CancelReservation(io)

SpecFail == Init /\ [][NextFail]_vars

----------------------------------------------------------------------------
(* Properties *)

(* the users booked on a flight *)
UsersOn(users, flightNumber) ==
    {u \in DOMAIN users : users[u].flightNumber = flightNumber}

SeatTaken(users, flightNumber, seatNumber) ==
    \E u \in UsersOn(users, flightNumber) : users[u].seatNumber = seatNumber

(* C1: no two distinct User rows have the same (flightNumber, seatNumber), *)
(* in every state the eight operations can reach, storage errors included. *)
C1_SeatUniqueness ==
    \A u1 \in DOMAIN Users, u2 \in DOMAIN Users :
        (u1 # u2) =>
            ~(/\ Users[u1].flightNumber = Users[u2].flightNumber
              /\ Users[u1].seatNumber = Users[u2].seatNumber)

(* two users share a flight after a modifyUser moved one of them *)
C1_Witness ==
    /\ last.op = "modifyUser"
    /\ \E u1 \in DOMAIN Users, u2 \in DOMAIN Users :
          /\ u1 # u2
          /\ Users[u1].flightNumber = Users[u2].flightNumber

(* C2: with no storage failure, every flight's availableTickets equals its *)
(* totalTickets minus the number of User rows referencing that flight.     *)
C2_TicketsTrackBookings ==
    \A f \in DOMAIN Flights :
        Flights[f].availableTickets =
            Flights[f].totalTickets - Cardinality(UsersOn(Users, f))

(* C3: every Flight row satisfies 0 <= availableTickets <= totalTickets. *)
C3_AvailableWithinTotal ==
    \A f \in DOMAIN Flights :
        /\ 0 <= Flights[f].availableTickets
        /\ Flights[f].availableTickets <= Flights[f].totalTickets

(* C4: each User row's flightNumber is the key of an existing Flight row, *)
(* in every state the eight operations can reach, storage errors included. *)
C4_UsersReferenceFlights ==
    \A u \in DOMAIN Users : Users[u].flightNumber \in DOMAIN Flights

(* a flight that had users was deleted while a user of another flight stays *)
C4_Witness ==
    /\ last = [op |-> "deleteFlight",
               msg |-> "Flight and associated users deleted successfully."]
    /\ Cardinality(DOMAIN Flights) = 1
    /\ Cardinality(DOMAIN Users) = 1
    /\ \E f \in DOMAIN Flights : Flights[f].availableTickets < Flights[f].totalTickets

(* C5: addFlight with a flightNumber that is not present creates a Flight  *)
(* row for which flightExists is true and availableTickets = totalTickets; *)
(* with a flightNumber that is present it aborts and leaves every row of   *)
(* both tables unchanged.                                                  *)
C5_AddFlight ==
    \A flightNumber \in FlightNumbers, d \in AnyFlightDetails,
       totalTickets \in TicketInputs :
        LET r == addFlight(DB, flightNumber, d[1], d[2], d[3], totalTickets, Ok(2))
        IN IF flightNumber \notin DOMAIN Flights
           THEN /\ flightExists(r.db, flightNumber, TRUE)
                /\ r.db.Flights[flightNumber].totalTickets = totalTickets
                /\ r.db.Flights[flightNumber].availableTickets =
                       r.db.Flights[flightNumber].totalTickets
                /\ r.msg = "Flight added successfully."
           ELSE /\ r.db = DB
                /\ r.stmts = <<>>
                /\ r.msg = "Flight with this number already exists!"

(* addFlight has just added a flight with tickets, next to one that exists *)
C5_Witness ==
    /\ last = [op |-> "addFlight", msg |-> "Flight added successfully."]
    /\ Cardinality(DOMAIN Flights) = 2
    /\ \E f \in DOMAIN Flights :
          /\ Flights[f].totalTickets > 0
          /\ Flights[f].availableTickets = Flights[f].totalTickets
          /\ UsersOn(Users, f) = {}

(* C6: for every existing flight F with availableTickets > 0, every seat S *)
(* not occupied on F and every userID not yet present, addUser succeeds:   *)
(* it inserts exactly the User row (userID, F, S), decreases F's           *)
(* availableTickets by exactly 1 and leaves every other row unchanged.     *)
C6_AddUserSucceeds ==
    \A userID \in UserIDs, name \in AnyName, F \in FlightNumbers, S \in Seats :
        (/\ F \in DOMAIN Flights
         /\ Flights[F].availableTickets > 0
         /\ ~SeatTaken(Users, F, S)
         /\ userID \notin DOMAIN Users)
        => LET r == addUser(DB, userID, name, F, S, Ok(5))
           IN /\ r.msg = "User added successfully."
              /\ r.db.Users = With(Users, userID, User(name, F, S))
              /\ r.db.Flights =
                     [Flights EXCEPT ![F].availableTickets = @ - 1]

(* addUser has just booked the only user, on a flight that had a ticket    *)
(* left, while a second flight exists                                      *)
C6_Witness ==
    /\ last = [op |-> "addUser", msg |-> "User added successfully."]
    /\ Cardinality(DOMAIN Flights) = 2
    /\ \E u \in DOMAIN Users :
          /\ DOMAIN Users = {u}
          /\ Flights[Users[u].flightNumber].totalTickets = 1
          /\ Flights[Users[u].flightNumber].availableTickets = 0

(* C7: addUser aborts when the userID already exists, or the referenced    *)
(* flightNumber does not exist, or the requested seat is already taken on  *)
(* that flight; in each case no User row is created and no flight's        *)
(* availableTickets changes.                                               *)
C7_AddUserAborts ==
    \A userID \in UserIDs, name \in AnyName, F \in FlightNumbers, S \in Seats :
        LET r == addUser(DB, userID, name, F, S, Ok(5))
        IN /\ (userID \in DOMAIN Users) =>
                  /\ r.msg = "User with this ID already exists!"
                  /\ r.stmts = <<>>
                  /\ r.db = DB
           /\ (userID \notin DOMAIN Users /\ F \notin DOMAIN Flights) =>
                  /\ r.msg = "Flight doesn't exist!"
                  /\ r.stmts = <<>>
                  /\ r.db = DB
           /\ (userID \notin DOMAIN Users /\ F \in DOMAIN Flights
                  /\ SeatTaken(Users, F, S)) =>
                  /\ r.msg = "Seat is already taken on this flight!"
                  /\ r.stmts = <<>>
                  /\ r.db = DB

(* a user holds a seat on the one flight, a second userID is free and the  *)
(* other flight number is absent: each of the three aborts can happen      *)
C7_Witness ==
    /\ last.op = "addUser"
    /\ Cardinality(DOMAIN Flights) = 1
    /\ \E u \in DOMAIN Users, u2 \in UserIDs :
          /\ DOMAIN Users = {u}
          /\ addUser(DB, u2, "Ann", Users[u].flightNumber,
                     Users[u].seatNumber, Ok(5)).msg
                 = "Seat is already taken on this flight!"

(* C8: deleteUser on an existing userID removes that User row and          *)
(* increases by exactly 1 the availableTickets of the flight the user      *)
(* referenced, changing no other row; on an absent userID it aborts with   *)
(* no change.                                                              *)
C8_DeleteUser ==
    \A userID \in UserIDs :
        LET r == deleteUser(DB, userID, Ok(4))
        IN IF userID \in DOMAIN Users
           THEN /\ r.msg = "User deleted successfully."
                /\ r.db.Users = Without(Users, userID)
                /\ r.db.Flights =
                       [Flights EXCEPT
                           ![Users[userID].flightNumber].availableTickets = @ + 1]
           ELSE /\ r.msg = "User not found!"
                /\ r.stmts = <<>>
                /\ r.db = DB

(* C9: after deleteUser removed the user holding seat S on flight F, an    *)
(* addUser with a userID not present for the same F and S succeeds, and    *)
(* F's availableTickets then has the value it had before the deleteUser.   *)
C9_DeleteThenAdd ==
    \A userID \in DOMAIN Users, newID \in UserIDs, name \in AnyName :
        LET F == Users[userID].flightNumber
            S == Users[userID].seatNumber
            del == deleteUser(DB, userID, Ok(4))
            add == addUser(del.db, newID, name, F, S, Ok(5))
        IN (newID \notin DOMAIN del.db.Users) =>
              /\ add.msg = "User added successfully."
              /\ add.db.Users[newID] = User(name, F, S)
              /\ add.db.Flights[F].availableTickets = Flights[F].availableTickets

(* C10: deleteFlight(F) on an existing flight removes the Flight row F and *)
(* every User row referencing F, so that flightExists(F) is false and      *)
(* userExists is false for each of those users, while the other flights    *)
(* and the users on other flights are unchanged; on an absent flight it    *)
(* aborts with no change.                                                  *)
C10_DeleteFlight ==
    \A F \in FlightNumbers :
        LET r == deleteFlight(DB, F, Ok(3))
        IN IF F \in DOMAIN Flights
           THEN /\ r.msg = "Flight and associated users deleted successfully."
                /\ ~flightExists(r.db, F, TRUE)
                /\ \A u \in UsersOn(Users, F) : ~userExists(r.db, u, TRUE)
                /\ r.db.Flights = Without(Flights, F)
                /\ \A u \in DOMAIN Users \ UsersOn(Users, F) :
                      /\ userExists(r.db, u, TRUE)
                      /\ r.db.Users[u] = Users[u]
                /\ DOMAIN r.db.Users \subseteq DOMAIN Users
           ELSE /\ r.msg = "Flight not found!"
                /\ r.stmts = <<>>
                /\ r.db = DB

(* deleteFlight has just removed a flight that had a user (the other       *)
(* flight's counter still shows its own booking), and the other flight     *)
(* with its user is still there                                            *)
C10_Witness ==
    /\ last = [op |-> "deleteFlight",
               msg |-> "Flight and associated users deleted successfully."]
    /\ \E f \in DOMAIN Flights, u \in DOMAIN Users :
          /\ DOMAIN Flights = {f}
          /\ DOMAIN Users = {u}
          /\ Users[u].flightNumber = f
          /\ deleteFlight(DB, f, Ok(3)).db.Users = Empty

(* C11: modifyUser aborts with no change when the userID is absent, when   *)
(* the new flightNumber does not exist, or when the new (flight, seat) is  *)
(* occupied by a different user; it does not abort when that seat is       *)
(* occupied by nobody but the user being modified.                         *)
C11_ModifyUserAborts ==
    \A userID \in UserIDs, name \in AnyName, F \in FlightNumbers, S \in Seats :
        LET r == modifyUser(DB, userID, name, F, S, Ok(4))
            others == [u \in DOMAIN Users \ {userID} |-> Users[u]]
        IN /\ (userID \notin DOMAIN Users) =>
                  /\ r.msg = "User not found!"
                  /\ r.stmts = <<>>
                  /\ r.db = DB
           /\ (userID \in DOMAIN Users /\ F \notin DOMAIN Flights) =>
                  /\ r.msg = "Flight doesn't exist!"
                  /\ r.stmts = <<>>
                  /\ r.db = DB
           /\ (userID \in DOMAIN Users /\ F \in DOMAIN Flights
                  /\ SeatTaken(others, F, S)) =>
                  /\ r.msg = "Seat is already taken on this flight!"
                  /\ r.stmts = <<>>
                  /\ r.db = DB
           /\ (userID \in DOMAIN Users /\ F \in DOMAIN Flights
                  /\ ~SeatTaken(others, F, S)) =>
                  /\ r.msg = "User modified successfully."
                  /\ r.db.Users[userID] = User(name, F, S)

(* after a modifyUser two users sit on one flight: either can keep its own *)
(* seat, neither can take the other's, and the other flight number is free *)
C11_Witness ==
    /\ last = [op |-> "modifyUser", msg |-> "User modified successfully."]
    /\ Cardinality(DOMAIN Flights) = 1
    /\ \E u1 \in DOMAIN Users, u2 \in DOMAIN Users :
          /\ u1 # u2
          /\ Users[u1].flightNumber = Users[u2].flightNumber
          /\ modifyUser(DB, u1, "Bob", Users[u1].flightNumber,
                        Users[u1].seatNumber, Ok(4)).msg
                 = "User modified successfully."
          /\ modifyUser(DB, u1, "Bob", Users[u2].flightNumber,
                        Users[u2].seatNumber, Ok(4)).msg
                 = "Seat is already taken on this flight!"

(* C12: makeReservation aborts, leaving both tables unchanged, when the    *)
(* userID exists, the flight does not exist or has availableTickets <= 0,  *)
(* or the seat is taken; otherwise it inserts the User row and decreases   *)
(* that flight's availableTickets by exactly 1; it never makes a flight's  *)
(* availableTickets negative.                                              *)
C12_MakeReservation ==
    \A userID \in UserIDs, name \in AnyName, F \in FlightNumbers, S \in Seats :
        LET r == makeReservation(DB, userID, name, F, S, Ok(5))
        IN /\ IF \/ userID \in DOMAIN Users
                 \/ F \notin DOMAIN Flights
                 \/ Flights[F].availableTickets <= 0
                 \/ SeatTaken(Users, F, S)
              THEN /\ r.db = DB
                   /\ r.stmts = <<>>
                   /\ r.msg # "Reservation successful! Seat booked."
              ELSE /\ r.msg = "Reservation successful! Seat booked."
                   /\ r.db.Users = With(Users, userID, User(name, F, S))
                   /\ r.db.Flights =
                          [Flights EXCEPT ![F].availableTickets = @ - 1]
           /\ \A f \in DOMAIN r.db.Flights :
                  (r.db.Flights[f].availableTickets < 0) =>
                      (f \in DOMAIN Flights /\ r.db.Flights[f] = Flights[f])

(* makeReservation has just sold the last ticket of a flight: the next     *)
(* reservation on it is refused for lack of tickets                        *)
C12_Witness ==
    /\ last = [op |-> "makeReservation",
               msg |-> "Reservation successful! Seat booked."]
    /\ \E u \in DOMAIN Users, u2 \in UserIDs, S \in Seats :
          /\ DOMAIN Users = {u}
          /\ Flights[Users[u].flightNumber].totalTickets = 1
          /\ Flights[Users[u].flightNumber].availableTickets = 0
          /\ ~SeatTaken(Users, Users[u].flightNumber, S)
          /\ makeReservation(DB, u2, "Ann", Users[u].flightNumber, S, Ok(5)).msg
                 = "No available tickets for this flight."

(* C13: cancelReservation and deleteUser are equivalent: from every state, *)
(* for every userID and the same outcomes of the storage accesses, both    *)
(* give the same tables, run the same statements, and succeed or fail      *)
(* together.                                                               *)
C13_CancelIsDelete ==
    \A userID \in UserIDs, io \in IO(4) :
        LET d == deleteUser(DB, userID, io)
            c == cancelReservation(DB, userID, io)
        IN /\ c.db = d.db
           /\ c.stmts = d.stmts
           /\ (c.msg = "Reservation canceled successfully.")
                  <=> (d.msg = "User deleted successfully.")
           /\ (c.msg = "User not found!") <=> (d.msg = "User not found!")
           /\ (c.msg = "") <=> (d.msg = "")

(* cancelReservation has just removed a user of a flight with a non-empty  *)
(* number and restored its ticket, and another user is still booked        *)
C13_Witness ==
    /\ last = [op |-> "cancelReservation",
               msg |-> "Reservation canceled successfully."]
    /\ DOMAIN Users # {}
    /\ \E f \in DOMAIN Flights :
          /\ f # ""
          /\ UsersOn(Users, f) = {}
          /\ Flights[f].totalTickets = 1
          /\ Flights[f].availableTickets = 1

(* C14: modifyFlight on an existing flight overwrites that flight's        *)
(* airlineName, startingPoint, destination, totalTickets and               *)
(* availableTickets with the supplied values, whatever they are, and       *)
(* leaves the Users table and every other Flight row unchanged; on an      *)
(* absent flightNumber it aborts with no change.                           *)
C14_ModifyFlight ==
    \A F \in FlightNumbers, d \in AnyFlightDetails, totalTickets \in TicketInputs,
       availableTickets \in (0 - 1)..(MaxTickets + 1) :
        LET r == modifyFlight(DB, F, d[1], d[2], d[3],
                              totalTickets, availableTickets, Ok(2))
        IN IF F \in DOMAIN Flights
           THEN /\ r.msg = "Flight modified successfully."
                /\ r.db.Flights =
                       [Flights EXCEPT
                           ![F] = Flight(d[1], d[2], d[3],
                                         totalTickets, availableTickets)]
                /\ r.db.Users = Users
           ELSE /\ r.msg = "Flight not found!"
                /\ r.stmts = <<>>
                /\ r.db = DB

(* modifyFlight has just given a booked flight more available tickets than *)
(* total tickets, next to a second flight                                  *)
C14_Witness ==
    /\ last = [op |-> "modifyFlight", msg |-> "Flight modified successfully."]
    /\ Cardinality(DOMAIN Flights) = 2
    /\ \E f \in DOMAIN Flights :
          /\ Flights[f].availableTickets > Flights[f].totalTickets
          /\ UsersOn(Users, f) # {}

(* the statements of r hold a failed User INSERT and a counter UPDATE *)
FailedInsertThenUpdate(r) ==
    /\ \E i \in 1..Len(r.stmts) : r.stmts[i] = Stmt("INSERT Users", FALSE)
    /\ \E j \in 1..Len(r.stmts) : r.stmts[j].kind = "UPDATE availableTickets"

(* C15 as stated: once a flight exists, there is a run of addUser or       *)
(* makeReservation in which the User INSERT fails and the availableTickets *)
(* decrement is executed all the same.                                     *)
C15_UpdateAfterFailedInsert ==
    (DOMAIN Flights # {}) =>
        \E userID \in UserIDs, name \in Names, F \in FlightNumbers, S \in Seats,
           io \in IO(5) :
            \/ FailedInsertThenUpdate(addUser(DB, userID, name, F, S, io))
            \/ FailedInsertThenUpdate(makeReservation(DB, userID, name, F, S, io))

(* C15, amended: in addUser and in makeReservation the availableTickets    *)
(* decrement is executed only after the User INSERT succeeded; when the    *)
(* INSERT fails no other statement runs, no table changes and no success   *)
(* is reported.                                                            *)
C15_NoUpdateAfterFailedInsert ==
    \A userID \in UserIDs, name \in Names, F \in FlightNumbers, S \in Seats,
       io \in IO(5) :
        \A r \in {addUser(DB, userID, name, F, S, io),
                  makeReservation(DB, userID, name, F, S, io)} :
            /\ ~FailedInsertThenUpdate(r)
            /\ (r.stmts # <<>> /\ r.stmts[1] = Stmt("INSERT Users", FALSE)) =>
                   /\ Len(r.stmts) = 1
                   /\ r.db = DB
                   /\ r.msg = ""
            /\ (r.stmts # <<>> /\ r.stmts[1] # Stmt("INSERT Users", FALSE)) =>
                   /\ r.stmts[1] = Stmt("INSERT Users", TRUE)
                   /\ Len(r.stmts) = 2
                   /\ r.stmts[2].kind = "UPDATE availableTickets"

(* the INSERT of addUser has just failed on a flight that still has all    *)
(* its tickets and no user                                                 *)
C15_Witness ==
    /\ last = [op |-> "addUser", msg |-> ""]
    /\ Users = Empty
    /\ \E f \in DOMAIN Flights :
          /\ Flights[f].totalTickets = 1
          /\ Flights[f].availableTickets = 1

(* C16: a successful modifyUser changes only the name, flightNumber and    *)
(* seatNumber of the one User row and leaves every Flight row unchanged,   *)
(* also when it moves the user to another flight; a later deleteUser of    *)
(* that user then increments the counter of the new flight.                *)
C16_ModifyUserKeepsCounters ==
    \A userID \in UserIDs, name \in AnyName, F \in FlightNumbers, S \in Seats :
        LET r == modifyUser(DB, userID, name, F, S, Ok(4))
            d == deleteUser(r.db, userID, Ok(4))
        IN (r.msg = "User modified successfully.") =>
               /\ r.db.Users = [Users EXCEPT ![userID] = User(name, F, S)]
               /\ r.db.Flights = Flights
               /\ d.db.Flights = [Flights EXCEPT ![F].availableTickets = @ + 1]

(* C17: addUser checks neither capacity nor seat range: on an existing     *)
(* flight with availableTickets = 0, with a new userID and a free seat of  *)
(* any number (negative, zero or above totalTickets), it succeeds, inserts *)
(* the row and leaves availableTickets at -1.                              *)
C17_AddUserUnchecked ==
    \A userID \in UserIDs, name \in AnyName, F \in FlightNumbers,
       S \in (0 - MaxTickets - 1)..(MaxTickets + 1) :
        (/\ userID \notin DOMAIN Users
         /\ F \in DOMAIN Flights
         /\ Flights[F].availableTickets = 0
         /\ ~SeatTaken(Users, F, S))
        => LET r == addUser(DB, userID, name, F, S, Ok(5))
           IN /\ r.msg = "User added successfully."
              /\ r.db.Users = With(Users, userID, User(name, F, S))
              /\ r.db.Flights = [Flights EXCEPT ![F].availableTickets = -1]

(* addUser has just booked a seat outside 1..totalTickets on a flight that *)
(* had no ticket left                                                      *)
C17_Witness ==
    /\ last = [op |-> "addUser", msg |-> "User added successfully."]
    /\ \E u \in DOMAIN Users :
          LET f == Flights[Users[u].flightNumber]
          IN /\ f.availableTickets = -1
             /\ Cardinality(UsersOn(Users, Users[u].flightNumber))
                    = f.totalTickets + 1
             /\ \/ Users[u].seatNumber < 1
                \/ Users[u].seatNumber > f.totalTickets

(* C18: in every state reached with addFlight, addUser, makeReservation,   *)
(* deleteUser, cancelReservation and deleteFlight only, every statement    *)
(* succeeding, the User rows referencing a flight number as many as its    *)
(* totalTickets minus its availableTickets.                                *)
C18_TrackingWithoutModify ==
    \A f \in DOMAIN Flights :
        Cardinality(UsersOn(Users, f)) =
            Flights[f].totalTickets - Flights[f].availableTickets

(* C19: the operations of several statements are not atomic.  When the     *)
(* User INSERT of addUser or makeReservation succeeds and the counter      *)
(* UPDATE after it fails, success is reported and the row stays with no    *)
(* counter changed; likewise for the User DELETE of deleteUser and         *)
(* cancelReservation; when deleteFlight's User DELETE succeeds and its     *)
(* Flight DELETE fails, the flight's users are gone and its row remains as *)
(* it was.                                                                 *)
C19_NotAtomic ==
    /\ \A userID \in UserIDs, name \in Names, F \in FlightNumbers, S \in Seats :
          LET a == addUser(DB, userID, name, F, S, FailAt(5, 5))
              m == makeReservation(DB, userID, name, F, S, FailAt(5, 5))
              halfDone == <<Stmt("INSERT Users", TRUE),
                            Stmt("UPDATE availableTickets", FALSE)>>
              free == /\ userID \notin DOMAIN Users
                      /\ F \in DOMAIN Flights
                      /\ ~SeatTaken(Users, F, S)
          IN /\ free => a.stmts = halfDone
             /\ (free /\ Flights[F].availableTickets > 0) => m.stmts = halfDone
             /\ (a.stmts = halfDone) =>
                    /\ a.msg = "User added successfully."
                    /\ a.db.Users = With(Users, userID, User(name, F, S))
                    /\ a.db.Flights = Flights
             /\ (m.stmts = halfDone) =>
                    /\ m.msg = "Reservation successful! Seat booked."
                    /\ m.db.Users = With(Users, userID, User(name, F, S))
                    /\ m.db.Flights = Flights
    /\ \A userID \in UserIDs :
          LET d == deleteUser(DB, userID, FailAt(4, 4))
              c == cancelReservation(DB, userID, FailAt(4, 4))
              halfDone == <<Stmt("DELETE Users", TRUE),
                            Stmt("UPDATE availableTickets", FALSE)>>
          IN /\ (userID \in DOMAIN Users /\ Users[userID].flightNumber # "")
                    => (d.stmts = halfDone /\ c.stmts = halfDone)
             /\ (d.stmts = halfDone) =>
                    /\ d.msg = "User deleted successfully."
                    /\ d.db.Users = Without(Users, userID)
                    /\ d.db.Flights = Flights
             /\ (c.stmts = halfDone) =>
                    /\ c.msg = "Reservation canceled successfully."
                    /\ c.db.Users = Without(Users, userID)
                    /\ c.db.Flights = Flights
    /\ \A F \in FlightNumbers :
          LET x == deleteFlight(DB, F, FailAt(3, 3))
              halfDone == <<Stmt("DELETE Users", TRUE),
                            Stmt("DELETE Flights", FALSE)>>
          IN /\ (F \in DOMAIN Flights) => x.stmts = halfDone
             /\ (x.stmts = halfDone) =>
                    /\ x.msg # "Flight and associated users deleted successfully."
                    /\ UsersOn(x.db.Users, F) = {}
                    /\ \A u \in DOMAIN Users \ UsersOn(Users, F) :
                           u \in DOMAIN x.db.Users /\ x.db.Users[u] = Users[u]
                    /\ x.db.Flights = Flights

(* the Flight DELETE of deleteFlight has just failed after its users were  *)
(* deleted: the flight is still there, sold out and without a user         *)
C19_Witness ==
    /\ last = [op |-> "deleteFlight", msg |-> ""]
    /\ Users = Empty
    /\ \E f \in DOMAIN Flights :
          /\ Flights[f].totalTickets = 1
          /\ Flights[f].availableTickets = 0

====
